---- MODULE Spec2Model ----
(***************************************************************************)
(* A model of image2excel: Converter (src/image_converter.py) converts one *)
(* image file into a workbook whose cells are the colour channels of the   *)
(* resized image, and Application.run (src/image2excel.py) drives one      *)
(* Converter per input file.                                               *)
(*                                                                         *)
(* Python floats are modelled as exact rationals <<numerator, denominator>>*)
(* with a positive denominator.                                            *)
(***************************************************************************)
EXTENDS Integers, Sequences, FiniteSets, TLC

VARIABLES
    pc,              \* position of the modelled call
    image,           \* the PIL image a Converter works on: [width, height, pixels]
    config,          \* the settings dict handed to the Converter
    new_dimensions,  \* result of calc_resize_dimensions: <<width, height, rescale>>
    sheet_info,      \* Converter.sheet_info: [num_sheet_cols, num_sheet_rows]
    wksheet,         \* the "Image" worksheet: [cells, writes, heights, rules]
    row,             \* populate_cell_values: the outer loop's row
    col,             \* populate_cell_values: the inner loop's col
    pixel_rgb,       \* populate_cell_values: the pixel carried between columns
    getpixel_calls,  \* the coordinates image.getpixel was called with, in order
    fs,              \* the file system: [dirs, entries] (see FileSystems)
    files_list,      \* Application.run: the paths to go through
    file_index,      \* Application.run: position of the for loop in files_list
    num_files_seen,
    num_files_processed,
    attempted,       \* the paths a Converter was constructed for, in order
    filepath,        \* Converter.filepath
    load_error,      \* the exception raised inside process_file's try block, or None
    save_calls,      \* every wkbook.save call so far: [filepath, path, outcome]
    output_file_path,\* process_file: the path the workbook is saved to
    output_log       \* <<filepath, output_file_path>> of every Converter so far

populateVars == <<sheet_info, wksheet, row, col, pixel_rgb, getpixel_calls>>
appVars == <<fs, files_list, file_index, num_files_seen, num_files_processed, attempted>>
outVars == <<output_file_path, output_log>>
runVars == <<appVars, filepath, load_error, save_calls, outVars>>

\* ------------------------------------------------------------------ bounds
\* Largest source image side of the resize planner's inputs.
MaxSrcDim == 5
\* Desired output sizes are the floats n / DesiredDen for n in 1..MaxDesiredNum.
MaxDesiredNum == 8
DesiredDen == 2
\* Largest width and height of the images whose pixels are enumerated.
MaxImgW == 2
MaxImgH == 2
\* Largest image of the gradient rule generator's inputs (pixels not enumerated).
MaxRuleW == 10
MaxRuleH == 3
\* Largest number of entries of the batch directory.
MaxFiles == 2

\* ------------------------------------------------------------- rationals
Rat(n, d) == <<n, d>>
RatLE(a, b) == a[1] * b[2] <= b[1] * a[2]
RatLT(a, b) == a[1] * b[2] < b[1] * a[2]
RatEQ(a, b) == a[1] * b[2] = b[1] * a[2]
\* Python's min(a, b): the first argument unless the second is smaller.
RatMin(a, b) == IF RatLT(b, a) THEN b ELSE a
RatMax(a, b) == IF RatLT(a, b) THEN b ELSE a
One == Rat(1, 1)
\* n * r for an int n, and r / n for an int n > 0.
IntTimes(n, r) == Rat(n * r[1], r[2])
DivByInt(r, n) == Rat(r[1], r[2] * n)

\* int(round(r)) for r >= 0: Python 3 rounds to nearest, ties to the even integer.
PyRound(r) ==
    LET fl  == r[1] \div r[2]
        rem == r[1] % r[2]
    IN  IF 2 * rem < r[2] THEN fl
        ELSE IF 2 * rem > r[2] THEN fl + 1
        ELSE IF fl % 2 = 0 THEN fl ELSE fl + 1

\* The value None of an optional argument or setting.
None == "None"
\* Python truthiness of the --enlarge setting ("True", "False" or None).
Truthy(v) == v = "True"

\* ------------------------------------------- Converter.calc_resize_dimensions
calc_resize_dimensions_uncapped(img, output_width, output_height, allow_enlarge) ==
    LET horz_rescale == DivByInt(output_width, img.width)
        vert_rescale == DivByInt(output_height, img.height)
        rescale == RatMin(horz_rescale, vert_rescale)
    IN  << PyRound(IntTimes(img.width, rescale)),
           PyRound(IntTimes(img.height, rescale)),
           rescale >>

calc_resize_dimensions_max(img, output_width, output_height, allow_enlarge) ==
    LET horz0 == DivByInt(output_width, img.width)
        vert0 == DivByInt(output_height, img.height)
        horz_rescale == IF ~Truthy(allow_enlarge) THEN RatMin(One, horz0) ELSE horz0
        vert_rescale == IF ~Truthy(allow_enlarge) THEN RatMin(One, vert0) ELSE vert0
        rescale == RatMax(horz_rescale, vert_rescale)
    IN  << PyRound(IntTimes(img.width, rescale)),
           PyRound(IntTimes(img.height, rescale)),
           rescale >>

calc_resize_dimensions(img, output_width, output_height, allow_enlarge) ==
    LET horz0 == DivByInt(output_width, img.width)
        vert0 == DivByInt(output_height, img.height)
        horz_rescale == IF ~Truthy(allow_enlarge) THEN RatMin(One, horz0) ELSE horz0
        vert_rescale == IF ~Truthy(allow_enlarge) THEN RatMin(One, vert0) ELSE vert0
        rescale == RatMin(horz_rescale, vert_rescale)
    IN  << PyRound(IntTimes(img.width, rescale)),
           PyRound(IntTimes(img.height, rescale)),
           rescale >>

\* ------------------------------------------------------- paths and settings
\* A path is held as [dir, name, ext]: "pics\\a.png" is Path("pics", "a", ".png"),
\* the directory "pics" is Path("pics", "", "") and "" is EmptyPath.
Path(dir, name, ext) == [dir |-> dir, name |-> name, ext |-> ext]
EmptyPath == Path("", "", "")
PicsDir == Path("pics", "", "")
OutDir == Path("out", "", "")
OutFile == Path("out", "result", ".xlsx")
MissingPath == Path("nowhere", "", "")
\* None where a path is expected.
NonePath == [none |-> TRUE]
\* os.path.splitext( path )[0] + ".xlsx"
SwapExtension(path) == Path(path.dir, path.name, ".xlsx")

NoPixels == << >>
NotComputed == << >>
DimsOnly(w, h) == [width |-> w, height |-> h, pixels |-> NoPixels]

\* The settings the model reads; the other keys of config are left out.
BaseConfig ==
    [input_file |-> EmptyPath, output_file |-> EmptyPath, batch_mode |-> None,
     output_width |-> Rat(2, 1), output_height |-> Rat(1, 1), enlarge |-> None,
     output_row_height |-> Rat(15, 2)]

\* ------------------------------------------------ the resize planner alone
SrcDims == 1..MaxSrcDim
DesiredSizes == { Rat(n, DesiredDen) : n \in 1..MaxDesiredNum }
EnlargeSettings == {"True", "False", None}

\* Converter.SheetInfo(): the sheet size of a freshly constructed Converter.
SheetInfo == [num_sheet_cols |-> 1, num_sheet_rows |-> 1]
\* A worksheet nothing was written to: cells maps <<column, row>> to the value
\* written, writes counts the assignments to each cell, heights maps a row to its
\* height, rules is the conditional-formatting list in the order of the add calls.
EmptySheet == [cells |-> << >>, writes |-> << >>, heights |-> << >>, rules |-> << >>]
NoSheet == "no worksheet"
PopulateIdle ==
    /\ sheet_info = SheetInfo
    /\ wksheet = NoSheet
    /\ row = 0 /\ col = 0
    /\ pixel_rgb = <<0, 0, 0>>
    /\ getpixel_calls = << >>
\* No run of the application around the Converter: an empty file system.
NoRun ==
    /\ fs = [dirs |-> {}, entries |-> << >>]
    /\ files_list = << >>
    /\ file_index = 1
    /\ num_files_seen = 0
    /\ num_files_processed = 0
    /\ attempted = << >>
    /\ load_error = None
    /\ save_calls = << >>
    /\ output_file_path = NonePath
    /\ output_log = << >>

InitResize ==
    /\ pc = "plan"
    /\ PopulateIdle
    /\ NoRun
    /\ filepath = Path("pics", "a", ".png")
    /\ \E w \in SrcDims, h \in SrcDims : image = DimsOnly(w, h)
    /\ \E ow \in DesiredSizes, oh \in DesiredSizes, e \in EnlargeSettings :
          config = [BaseConfig EXCEPT !.output_width = ow, !.output_height = oh,
                                      !.enlarge = e]
    /\ new_dimensions = NotComputed

\* process_file's call of calc_resize_dimensions with the settings of config.
PlanResize ==
    /\ pc = "plan"
    /\ new_dimensions' = calc_resize_dimensions(image, config.output_width,
                                                config.output_height, config.enlarge)
    /\ pc' = "planned"
    /\ UNCHANGED <<image, config, populateVars, runVars>>

vars == <<pc, image, config, new_dimensions, sheet_info, wksheet, row, col,
          pixel_rgb, getpixel_calls, fs, files_list, file_index, num_files_seen,
          num_files_processed, attempted, filepath, load_error, save_calls,
          output_file_path, output_log>>

NextResize == PlanResize
SpecResize == InitResize /\ [][NextResize]_vars

\* ------------------------------------------- Converter.populate_cell_values
\* f with key k (re)bound to v.
Put(f, k, v) == [x \in (DOMAIN f) \cup {k} |-> IF x = k THEN v ELSE f[x]]
\* Number of assignments made so far to the key k.
Count(f, k) == IF k \in DOMAIN f THEN f[k] ELSE 0

\* col // 3 and col % 3: three sheet columns per pixel column, in R, G, B order.
PixelX_unscaled(c) == c
PixelX(c) == c \div 3
RgbIndex(c) == c % 3
\* pixel_rgb[rgb_index] of a Python tuple (0-based) held as a TLA+ tuple (1-based).
Channel_reversed(rgb, rgb_index) == rgb[3 - rgb_index]
Channel(rgb, rgb_index) == rgb[rgb_index + 1]
\* wksheet.cell( column = col + 1, row = row + 1 ): sheet addresses are 1-indexed.
CellAddress(c, r) == <<c + 1, r + 1>>

\* image.getpixel(coord) raises IndexError outside the image.
InImage(img, coord) ==
    /\ coord[1] >= 0 /\ coord[1] < img.width
    /\ coord[2] >= 0 /\ coord[2] < img.height

\* Converter.get_output_file_path
get_output_file_path(input_file_path, output_path) ==
    IF output_path = NonePath \/ output_path = EmptyPath
    THEN SwapExtension(input_file_path)
    ELSE output_path

\* process_file, lines 259-268: the sheet is three columns per pixel column, and
\* the output path is settled.
SetSheetInfo ==
    /\ pc = "sheet_info"
    /\ sheet_info' = [num_sheet_cols |-> image.width * 3,
                      num_sheet_rows |-> image.height]
    /\ output_file_path' = get_output_file_path(filepath, config.output_file)
    /\ output_log' = Append(output_log, <<filepath, output_file_path'>>)
    /\ pc' = "workbook"
    /\ UNCHANGED <<image, config, new_dimensions, wksheet, row, col, pixel_rgb,
                   getpixel_calls, appVars, filepath, load_error, save_calls>>

\* for row in range(num_sheet_rows): the row's height, and the carried pixel reset.
PopulateNextRow ==
    /\ pc = "pop_row"
    /\ row < sheet_info.num_sheet_rows
    /\ wksheet' = [wksheet EXCEPT
                      !.heights = Put(@, row + 1, config.output_row_height)]
    /\ pixel_rgb' = <<0, 0, 0>>
    /\ col' = 0
    /\ pc' = "pop_col"
    /\ UNCHANGED <<image, config, new_dimensions, sheet_info, row, getpixel_calls,
                   runVars>>

\* if rgb_index == 0: pixel_rgb = image.getpixel( (pixel_x, row) )
PopulateGetPixel ==
    /\ pc = "pop_col"
    /\ col < sheet_info.num_sheet_cols
    /\ RgbIndex(col) = 0
    /\ LET pixel_coord == <<PixelX(col), row>>
       IN  /\ getpixel_calls' = Append(getpixel_calls, pixel_coord)
           /\ IF InImage(image, pixel_coord)
              THEN /\ pixel_rgb' = image.pixels[pixel_coord]
                   /\ pc' = "pop_cell"
              ELSE /\ pixel_rgb' = pixel_rgb
                   /\ pc' = "raised"
    /\ UNCHANGED <<image, config, new_dimensions, sheet_info, wksheet, row, col,
                   runVars>>

\* cell = wksheet.cell(col + 1, row + 1); cell.value = pixel_rgb[rgb_index]
PopulateWriteCell ==
    /\ \/ pc = "pop_cell"
       \/ pc = "pop_col" /\ col < sheet_info.num_sheet_cols /\ RgbIndex(col) # 0
    /\ LET cell == CellAddress(col, row)
       IN  wksheet' = [wksheet EXCEPT
                          !.cells = Put(@, cell, Channel(pixel_rgb, RgbIndex(col))),
                          !.writes = Put(@, cell, Count(@, cell) + 1)]
    /\ col' = col + 1
    /\ pc' = "pop_col"
    /\ UNCHANGED <<image, config, new_dimensions, sheet_info, row, pixel_rgb,
                   getpixel_calls, runVars>>

\* The inner loop is exhausted: on to the next row.
PopulateEndRow ==
    /\ pc = "pop_col"
    /\ col >= sheet_info.num_sheet_cols
    /\ row' = row + 1
    /\ pc' = "pop_row"
    /\ UNCHANGED <<image, config, new_dimensions, sheet_info, wksheet, col,
                   pixel_rgb, getpixel_calls, runVars>>

\* The outer loop is exhausted: populate_cell_values returns.
PopulateReturn ==
    /\ pc = "pop_row"
    /\ row >= sheet_info.num_sheet_rows
    /\ pc' = "rules"
    /\ UNCHANGED <<image, config, new_dimensions, sheet_info, wksheet, row, col,
                   pixel_rgb, getpixel_calls, runVars>>

Populate ==
    \/ PopulateNextRow
    \/ PopulateGetPixel
    \/ PopulateWriteCell
    \/ PopulateEndRow
    \/ PopulateReturn

\* ------------------------------ populate_cell_values on every small RGB image
\* The colours the enumerated images are painted with (LightCoral is the example
\* of the module docstring of image2excel.py).
Colours == { <<240, 128, 128>>, <<0, 255, 7>> }
Coords(w, h) == (0..(w - 1)) \X (0..(h - 1))
Images(maxw, maxh) ==
    UNION { { [width |-> w, height |-> h, pixels |-> px] :
                px \in [Coords(w, h) -> Colours] } :
            <<w, h>> \in (1..maxw) \X (1..maxh) }

InitPopulate ==
    /\ pc = "sheet_info"
    /\ image \in Images(MaxImgW, MaxImgH)
    /\ config = BaseConfig
    /\ new_dimensions = NotComputed
    /\ PopulateIdle
    /\ NoRun
    /\ filepath = Path("pics", "a", ".png")

\* process_file, lines 271-277: a new workbook's active sheet is handed to
\* populate_cell_values.
StartPopulate ==
    /\ pc = "workbook"
    /\ wksheet' = EmptySheet
    /\ row' = 0
    /\ pc' = "pop_row"
    /\ UNCHANGED <<image, config, new_dimensions, sheet_info, col, pixel_rgb,
                   getpixel_calls, runVars>>

NextPopulate == SetSheetInfo \/ StartPopulate \/ Populate
SpecPopulate == InitPopulate /\ [][NextPopulate]_vars

\* ---------------------------------------------- Converter.apply_color_rules
\* openpyxl.utils.get_column_letter: 1 -> A, 26 -> Z, 27 -> AA, ...; a column
\* letter is held as the sequence of its letters.
Alphabet == << "A", "B", "C", "D", "E", "F", "G", "H", "I", "J", "K", "L", "M",
               "N", "O", "P", "Q", "R", "S", "T", "U", "V", "W", "X", "Y", "Z" >>
RECURSIVE get_column_letter(_)
get_column_letter(col_idx) ==
    IF col_idx <= 0 THEN << >>
    ELSE LET remainder == col_idx % 26
         IN  IF remainder = 0
             THEN Append(get_column_letter(col_idx \div 26 - 1), Alphabet[26])
             ELSE Append(get_column_letter(col_idx \div 26), Alphabet[remainder])

\* F"{letter}1:{letter}{num_sheet_rows}" for the 0-based column c, held as
\* <<first column, first row, last column, last row>>.
ColumnRange_zero_based(c, num_rows) ==
    LET letter == get_column_letter(c) IN <<letter, 1, letter, num_rows>>
ColumnRange(c, num_rows) ==
    LET letter == get_column_letter(c + 1) IN <<letter, 1, letter, num_rows>>

\* ColorScaleRule( **csr_attrs, end_color = end_color )
ColorScaleRule(end_color) ==
    [start_type |-> "num", start_value |-> 0, end_type |-> "num", end_value |-> 255,
     start_color |-> "00000000", end_color |-> end_color]
EndColors == << "00FF0000", "0000FF00", "000000FF" >>

\* The loop of lines 149-153: cell_ranges after the columns 0 .. c - 1; the list
\* of channel k is held as a sequence of ranges, and " ".join of it is that
\* sequence (the empty string is the empty sequence).
RECURSIVE CellRanges(_, _)
CellRanges(c, info) ==
    IF c = 0 THEN << << >>, << >>, << >> >>
    ELSE LET before == CellRanges(c - 1, info)
             k == RgbIndex(c - 1) + 1
         IN  [before EXCEPT ![k] = Append(@, ColumnRange(c - 1, info.num_sheet_rows))]

\* wksheet.conditional_formatting after apply_color_rules: one add per channel.
apply_color_rules(sheet, info) ==
    LET cell_ranges == CellRanges(info.num_sheet_cols, info)
    IN  [sheet EXCEPT !.rules = @ \o
            [index \in 1..3 |-> [selector |-> cell_ranges[index],
                                 rule |-> ColorScaleRule(EndColors[index])]]]

\* process_file, line 280.
ApplyColorRules ==
    /\ pc = "rules"
    /\ wksheet' = apply_color_rules(wksheet, sheet_info)
    /\ pc' = "save"
    /\ UNCHANGED <<image, config, new_dimensions, sheet_info, row, col, pixel_rgb,
                   getpixel_calls, runVars>>

\* ----------------------- apply_color_rules on a Converter, sized or still fresh
InitRules ==
    /\ pc = "constructed"
    /\ \E w \in 1..MaxRuleW, h \in 1..MaxRuleH : image = DimsOnly(w, h)
    /\ config = BaseConfig
    /\ new_dimensions = NotComputed
    /\ sheet_info = SheetInfo
    /\ wksheet = EmptySheet
    /\ row = 0 /\ col = 0
    /\ pixel_rgb = <<0, 0, 0>>
    /\ getpixel_calls = << >>
    /\ NoRun
    /\ filepath = Path("pics", "a", ".png")

\* The sheet takes the size of the image, as in process_file lines 260-261.
SizeSheet ==
    /\ pc = "constructed"
    /\ sheet_info' = [num_sheet_cols |-> image.width * 3,
                      num_sheet_rows |-> image.height]
    /\ pc' = "sized"
    /\ UNCHANGED <<image, config, new_dimensions, wksheet, row, col, pixel_rgb,
                   getpixel_calls, runVars>>

\* A call of the method apply_color_rules with the Converter as it is.
CallApplyColorRules ==
    /\ pc \in {"constructed", "sized"}
    /\ wksheet' = apply_color_rules(wksheet, sheet_info)
    /\ pc' = "styled"
    /\ UNCHANGED <<image, config, new_dimensions, sheet_info, row, col, pixel_rgb,
                   getpixel_calls, runVars>>

NextRules == SizeSheet \/ CallApplyColorRules
SpecRules == InitRules /\ [][NextRules]_vars

\* ------------------------------------------------------- the file system
\* An entry of the batch directory: its path, what opening it as an image does
\* (kind), and the size of the image it holds.
Entry(name, ext, kind, w, h) ==
    [path |-> Path("pics", name, ext), kind |-> kind, width |-> w, height |-> h]
Candidates ==
    { Entry("a", ".png", "image", 4, 2),
      Entry("a", ".jpg", "image", 1, 1),
      Entry("big", ".png", "image", 6000, 5000),
      Entry("huge", ".png", "image", 8000, 7000),
      Entry("thin", ".png", "image", 4, 1),
      Entry("notes", ".txt", "not_image", 0, 0),
      Entry("locked", ".png", "unreadable", 0, 0),
      Entry("gone", ".png", "vanished", 0, 0),
      Entry("sub", "", "directory", 0, 0) }
\* The directory listings: up to MaxFiles distinct entries, in any order.
Listings ==
    UNION { { q \in [1..n -> Candidates] : \A i, j \in 1..n : i # j => q[i] # q[j] } :
            n \in 0..MaxFiles }
FileSystems == { [dirs |-> {PicsDir, OutDir}, entries |-> q] : q \in Listings }

EntriesAt(path) == { i \in 1..Len(fs.entries) : fs.entries[i].path = path }
EntryOf(path) == fs.entries[CHOOSE i \in EntriesAt(path) : TRUE]
\* os.path.isfile and os.path.isdir
isfile(path) == \E i \in EntriesAt(path) : fs.entries[i].kind # "directory"
isdir(path) ==
    \/ path \in fs.dirs
    \/ \E i \in EntriesAt(path) : fs.entries[i].kind = "directory"
\* glob.glob( input_file + "\\*" ) on Windows: everything directly under it.
glob(dir) == IF dir = PicsDir THEN [i \in 1..Len(fs.entries) |-> fs.entries[i].path]
             ELSE << >>

\* ------------------------------------------------ Converter.process_file
\* Image.MAX_IMAGE_PIXELS = 6000 * 4000
MAX_IMAGE_PIXELS == 6000 * 4000

\* What the with block of lines 229-230 raises for an entry, or None: open() fails
\* on a missing or unreadable file, Image.open cannot identify a file that is no
\* image, and Pillow's decompression-bomb check raises DecompressionBombError
\* above twice MAX_IMAGE_PIXELS (between the limit and twice the limit it only
\* warns, DecompressionBombWarning, and the image is opened).
OpenError(entry) ==
    CASE entry.kind = "vanished" -> "FileNotFoundError"
      [] entry.kind = "unreadable" -> "PermissionError"
      [] entry.kind = "not_image" -> "UnidentifiedImageError"
      [] OTHER -> IF entry.width * entry.height > 2 * MAX_IMAGE_PIXELS
                  THEN "DecompressionBombError" ELSE None

\* The except clauses of process_file (lines 252-257) and of save_excel_file
\* (lines 208-213, the last of which catches every Exception).
CaughtByLoad(exc) == exc \in {"FileNotFoundError", "DecompressionBombError"}
Exceptions == {"FileNotFoundError", "PermissionError", "UnidentifiedImageError",
               "DecompressionBombError", "ValueError", "OSError"}
CaughtBySave_named_only(exc) == exc \in {"FileNotFoundError", "PermissionError"}
CaughtBySave(exc) ==
    \/ exc = "FileNotFoundError"
    \/ exc = "PermissionError"
    \/ exc \in Exceptions

\* What process_file returns: no return statement of it gives a value.
process_file_result == None

\* Lines 229-236: the file is opened and identified.
LoadImage ==
    /\ pc = "load"
    /\ LET exc == OpenError(EntryOf(filepath))
       IN  /\ load_error' = exc
           /\ IF exc = None
              THEN /\ image' = DimsOnly(EntryOf(filepath).width, EntryOf(filepath).height)
                   /\ pc' = "plan"
              ELSE /\ image' = image
                   /\ pc' = IF CaughtByLoad(exc) THEN "returned" ELSE "raised"
    /\ UNCHANGED <<config, new_dimensions, populateVars, appVars, filepath,
                   save_calls, outVars>>

ImagesOfSize(w, h) ==
    { [width |-> w, height |-> h, pixels |-> px] : px \in [Coords(w, h) -> Colours] }

\* Lines 246-250: convert_to_RGB_mode and resize_image_to_fit. Image.resize raises
\* ValueError for a size with a side below 1; the resized pixels are whatever the
\* resampling gives.
ResizeImage ==
    /\ pc = "planned"
    /\ IF new_dimensions[1] < 1 \/ new_dimensions[2] < 1
       THEN /\ load_error' = "ValueError"
            /\ image' = image
            /\ pc' = IF CaughtByLoad("ValueError") THEN "returned" ELSE "raised"
       ELSE /\ load_error' = load_error
            /\ image' \in ImagesOfSize(new_dimensions[1], new_dimensions[2])
            /\ pc' = "sheet_info"
    /\ UNCHANGED <<config, new_dimensions, populateVars, appVars, filepath,
                   save_calls, outVars>>

\* What wkbook.save( path ) does: writing to a directory is refused (PermissionError
\* on Windows); otherwise the file is written, or the destination directory is
\* missing, the file is read-only or open elsewhere, or the write fails.
SaveOutcomes(path) ==
    IF isdir(path) THEN {"PermissionError"}
    ELSE {"saved", "FileNotFoundError", "PermissionError", "OSError"}

\* Lines 283-286: write_info_sheet (the Information sheet is not modelled) and
\* save_excel_file.
SaveExcelFile ==
    /\ pc = "save"
    /\ \E outcome \in SaveOutcomes(output_file_path) :
          /\ save_calls' = Append(save_calls, [filepath |-> filepath,
                                               path |-> output_file_path,
                                               outcome |-> outcome])
          /\ pc' = IF outcome = "saved" \/ CaughtBySave(outcome)
                   THEN "returned" ELSE "raised"
    /\ UNCHANGED <<image, config, new_dimensions, populateVars, appVars, filepath,
                   load_error, outVars>>

\* ------------------------------------------------------- Application.run
NoImage == DimsOnly(0, 0)

\* Lines 114-141: batch mode or a single file.
ResolveInput ==
    /\ pc = "run"
    /\ LET input_file == config.input_file
       IN  IF isdir(input_file)
           THEN /\ config' = [config EXCEPT !.batch_mode = "True"]
                /\ IF ~isdir(config.output_file)
                   THEN pc' = "exit" /\ files_list' = files_list
                   ELSE pc' = "loop" /\ files_list' = glob(input_file)
           ELSE /\ config' = [config EXCEPT !.batch_mode = "False"]
                /\ IF isfile(input_file)
                   THEN pc' = "loop" /\ files_list' = <<input_file>>
                   ELSE pc' = "exit" /\ files_list' = files_list
    /\ file_index' = 1
    /\ num_files_seen' = 0
    /\ num_files_processed' = 0
    /\ UNCHANGED <<image, new_dimensions, populateVars, fs, attempted, filepath,
                   load_error, save_calls, outVars>>

\* Lines 147-148: anything which isn't a file is skipped.
SkipNonFile ==
    /\ pc = "loop"
    /\ file_index <= Len(files_list)
    /\ ~isfile(files_list[file_index])
    /\ file_index' = file_index + 1
    /\ UNCHANGED <<pc, image, config, new_dimensions, populateVars, fs, files_list,
                   num_files_seen, num_files_processed, attempted, filepath,
                   load_error, save_calls, outVars>>

\* Lines 154-156: a new Converter for the file, and its process_file is entered.
StartFile ==
    /\ pc = "loop"
    /\ file_index <= Len(files_list)
    /\ isfile(files_list[file_index])
    /\ num_files_seen' = num_files_seen + 1
    /\ filepath' = files_list[file_index]
    /\ attempted' = Append(attempted, files_list[file_index])
    /\ sheet_info' = SheetInfo
    /\ wksheet' = NoSheet
    /\ row' = 0 /\ col' = 0
    /\ pixel_rgb' = <<0, 0, 0>>
    /\ getpixel_calls' = << >>
    /\ image' = NoImage
    /\ new_dimensions' = NotComputed
    /\ load_error' = None
    /\ output_file_path' = NonePath
    /\ pc' = "load"
    /\ UNCHANGED <<config, fs, files_list, file_index, num_files_processed,
                   save_calls, output_log>>

\* Lines 156-157: process_file has returned; the file counts as processed if it
\* returned a true value.
FileDone ==
    /\ pc = "returned"
    /\ num_files_processed' = IF Truthy(process_file_result)
                              THEN num_files_processed + 1
                              ELSE num_files_processed
    /\ file_index' = file_index + 1
    /\ pc' = "loop"
    /\ UNCHANGED <<image, config, new_dimensions, populateVars, fs, files_list,
                   num_files_seen, attempted, filepath, load_error, save_calls,
                   outVars>>

\* Lines 159-172: the loop is over and the counters are reported.
FinishRun ==
    /\ pc = "loop"
    /\ file_index > Len(files_list)
    /\ pc' = "finished"
    /\ UNCHANGED <<image, config, new_dimensions, populateVars, runVars>>

Init ==
    /\ pc = "run"
    /\ fs \in FileSystems
    /\ \E inp \in {PicsDir, MissingPath} \cup
                  { fs.entries[i].path : i \in 1..Len(fs.entries) },
          out \in {EmptyPath, OutDir, OutFile} :
            config = [BaseConfig EXCEPT !.input_file = inp, !.output_file = out]
    /\ image = NoImage
    /\ new_dimensions = NotComputed
    /\ PopulateIdle
    /\ files_list = << >>
    /\ file_index = 1
    /\ num_files_seen = 0
    /\ num_files_processed = 0
    /\ attempted = << >>
    /\ filepath = NonePath
    /\ load_error = None
    /\ save_calls = << >>
    /\ output_file_path = NonePath
    /\ output_log = << >>

ProcessFile ==
    \/ LoadImage
    \/ PlanResize
    \/ ResizeImage
    \/ SetSheetInfo
    \/ StartPopulate
    \/ Populate
    \/ ApplyColorRules
    \/ SaveExcelFile

Next ==
    \/ ResolveInput
    \/ SkipNonFile
    \/ StartFile
    \/ ProcessFile
    \/ FileDone
    \/ FinishRun

Spec == Init /\ [][Next]_vars

\* ----------------------------------------------------------------- claims
Planned == pc = "planned"
DesiredLargerThanSource ==
    /\ RatLT(Rat(image.width, 1), config.output_width)
    /\ RatLT(Rat(image.height, 1), config.output_height)

\* C2: with enlargement not allowed (enlarge False or None) the planned width and
\* height never exceed the source's, whatever the desired size; with enlargement
\* allowed and both desired dimensions larger than the source the scale factor
\* exceeds 1 and neither planned dimension is below the source's.
C2_EnlargeGating ==
    Planned =>
        /\ config.enlarge # "True" =>
              /\ new_dimensions[1] <= image.width
              /\ new_dimensions[2] <= image.height
        /\ (config.enlarge = "True" /\ DesiredLargerThanSource) =>
              /\ RatLT(One, new_dimensions[3])
              /\ new_dimensions[1] >= image.width
              /\ new_dimensions[2] >= image.height

\* C2 witness: enlargement not allowed, desired size larger than the source, and
\* the plan keeps the source size.
C2_Witness ==
    /\ Planned
    /\ config.enlarge = None
    /\ DesiredLargerThanSource
    /\ image.width > 1
    /\ new_dimensions[1] = image.width
    /\ new_dimensions[2] = image.height

\* With enlargement allowed the planned size does exceed the source size.
EnlargedPlanReached ==
    /\ Planned
    /\ config.enlarge = "True"
    /\ new_dimensions[1] > image.width
    /\ new_dimensions[2] > image.height

\* The per-axis factors as the claim states them, capped at 1 unless enlarging.
CappedFactor(desired, side) ==
    LET f == DivByInt(desired, side)
    IN  IF config.enlarge = "True" \/ RatLE(f, One) THEN f ELSE One

\* C3: the scale factor is the smaller of the two (capped) per-axis factors, and
\* each planned dimension is within 1/2 of the source dimension times that factor.
C3_AspectPreserved ==
    Planned =>
        LET s == new_dimensions[3]
            hf == CappedFactor(config.output_width, image.width)
            vf == CappedFactor(config.output_height, image.height)
            HalfOff(target, side) ==
                LET d == target * s[2] - side * s[1]
                IN  2 * (IF d < 0 THEN -d ELSE d) <= s[2]
        IN  /\ RatLE(s, hf) /\ RatLE(s, vf)
            /\ RatEQ(s, hf) \/ RatEQ(s, vf)
            /\ HalfOff(new_dimensions[1], image.width)
            /\ HalfOff(new_dimensions[2], image.height)

\* C3 witness: the two axes ask for different factors, the smaller one is used
\* and the other dimension is rounded.
C3_Witness ==
    /\ Planned
    /\ config.enlarge = "False"
    /\ RatLT(DivByInt(config.output_height, image.height),
             DivByInt(config.output_width, image.width))
    /\ RatLT(new_dimensions[3], One)
    /\ new_dimensions[1] * new_dimensions[3][2] # image.width * new_dimensions[3][1]

\* C4: the planned size is at least 1 x 1.
C4_AtLeastOneByOne ==
    Planned => new_dimensions[1] >= 1 /\ new_dimensions[2] >= 1

\* populate_cell_values has returned.
Populated == pc = "rules"

\* C1: when populate_cell_values has returned, the written cells are exactly the
\* 3W x H rectangle, each written once, and the cell of 0-based column c and row r
\* holds channel c mod 3 (Red, Green, Blue) of pixel (c div 3, r).
C1_CellsArePixelChannels ==
    Populated =>
        LET grid == (1..(3 * image.width)) \X (1..image.height)
        IN  /\ DOMAIN wksheet.cells = grid
            /\ DOMAIN wksheet.writes = grid
            /\ \A c \in 0..(3 * image.width - 1), r \in 0..(image.height - 1) :
                  /\ wksheet.writes[<<c + 1, r + 1>>] = 1
                  /\ \E x \in 0..(image.width - 1), k \in 1..3 :
                        /\ c = 3 * x + (k - 1)
                        /\ wksheet.cells[<<c + 1, r + 1>>] = image.pixels[<<x, r>>][k]

\* C1 witness: a populated sheet of an image with more than one pixel column and
\* row, of which two neighbouring pixels differ.
C1_Witness ==
    /\ Populated
    /\ image.width > 1 /\ image.height > 1
    /\ image.pixels[<<0, 0>>] # image.pixels[<<1, 0>>]
    /\ image.pixels[<<0, 0>>] # image.pixels[<<0, 1>>]
    /\ wksheet.cells[<<4, 2>>] = image.pixels[<<1, 1>>][1]

\* The 1-based column a column letter names (the inverse of get_column_letter).
RECURSIVE ColumnIndex(_)
ColumnIndex(letter) ==
    IF letter = << >> THEN 0
    ELSE 26 * ColumnIndex(SubSeq(letter, 1, Len(letter) - 1))
         + (CHOOSE i \in 1..26 : Alphabet[i] = letter[Len(letter)])

Styled == pc = "styled"
GridOfImage == sheet_info.num_sheet_cols = 3 * image.width

\* C5: on a grid of width 3W and height H apply_color_rules registers exactly three
\* rules, black at 0 to pure red, green, blue at 255, and the selector of rule k is
\* the W single-column ranges of the columns c with c mod 3 = k, ascending, each
\* spanning rows 1..H.
C5_ThreeRulesPartitionColumns ==
    (Styled /\ GridOfImage) =>
        /\ Len(wksheet.rules) = 3
        /\ \A k \in 0..2 :
              LET entry == wksheet.rules[k + 1]
              IN  /\ entry.rule.start_value = 0 /\ entry.rule.start_color = "00000000"
                  /\ entry.rule.end_value = 255
                  /\ entry.rule.end_color = EndColors[k + 1]
                  /\ Len(entry.selector) = image.width
                  /\ \A i \in 1..image.width :
                        LET rng == entry.selector[i]
                        IN  /\ ColumnIndex(rng[1]) = 3 * (i - 1) + k + 1
                            /\ rng[3] = rng[1]
                            /\ rng[2] = 1
                            /\ rng[4] = image.height

\* C5 witness: three rules on a grid wide enough for two-letter columns.
C5_Witness ==
    /\ Styled /\ GridOfImage
    /\ image.width >= 9 /\ image.height > 1
    /\ Len(wksheet.rules) = 3
    /\ wksheet.rules[1].selector[1] = << <<"A">>, 1, <<"A">>, image.height >>
    /\ wksheet.rules[3].selector[9] = << <<"A", "A">>, 1, <<"A", "A">>, image.height >>

\* C10: no conditional-formatting rule is registered with an empty selector.
C10_NoEmptySelector ==
    Styled => \A i \in 1..Len(wksheet.rules) : wksheet.rules[i].selector # << >>

\* The Converter at work, and the directory entry of its file.
InProcessFile == filepath # NonePath
OverCeiling(entry) ==
    entry.kind = "image" /\ entry.width * entry.height > MAX_IMAGE_PIXELS
\* The input errors: the file is missing, unreadable, no image, or over the ceiling.
IsInputError(entry) ==
    \/ entry.kind \in {"vanished", "unreadable", "not_image"}
    \/ OverCeiling(entry)
RegularFiles == { i \in 1..Len(files_list) : isfile(files_list[i]) }

\* C6: no input error of a file makes an exception leave process_file, and when
\* the run is over every regular file of the list was attempted.
C6_InputErrorsAreIsolated ==
    /\ (InProcessFile /\ IsInputError(EntryOf(filepath))) => pc # "raised"
    /\ pc \in {"finished", "raised"} => Len(attempted) = Cardinality(RegularFiles)

\* C7: a failed save is caught inside save_excel_file: it is tried once per file,
\* no exception leaves process_file once the save was tried, and a run that went
\* through the loop attempted every regular file of the list.
C7_SaveFailuresAreCaught ==
    /\ Len(save_calls) <= Len(attempted)
    /\ \A i, j \in 1..Len(save_calls) :
          i # j => save_calls[i].filepath # save_calls[j].filepath
    /\ \A i \in 1..Len(save_calls) :
          (save_calls[i].filepath = filepath /\ save_calls[i].outcome # "saved")
              => pc \in {"returned", "loop", "finished"}
    /\ pc = "finished" => Len(attempted) = Cardinality(RegularFiles)

\* C7 witness: the first file's save failed and a later file was attempted.
C7_Witness ==
    /\ Len(attempted) >= 2
    /\ Len(save_calls) >= 1
    /\ save_calls[1].filepath = attempted[1]
    /\ save_calls[1].outcome = "PermissionError"
    /\ pc = "finished"

\* C8: for a file whose loading fails (the file is not found, or the image has
\* more than MAX_IMAGE_PIXELS pixels) no workbook is created, no cell is written,
\* no rule is added, no output path is settled and no save is tried.
C8_LoadFailureAbortsPipeline ==
    (InProcessFile /\ (EntryOf(filepath).kind = "vanished" \/ OverCeiling(EntryOf(filepath))))
        => /\ wksheet = NoSheet
           /\ output_file_path = NonePath
           /\ \A i \in 1..Len(save_calls) : save_calls[i].filepath # filepath
           /\ pc \in {"load", "returned", "loop", "finished"}

\* C9: in batch mode the run proceeds when no output is named, each output is then
\* the input path with the extension .xlsx; when the output names an existing
\* directory each output is a file inside it; and no two input files get the same
\* output path.
C9_BatchOutputsDistinct ==
    config.batch_mode = "True" =>
        /\ config.output_file = EmptyPath => pc # "exit"
        /\ \A i \in 1..Len(output_log) :
              LET input == output_log[i][1]
                  output == output_log[i][2]
              IN  /\ config.output_file = EmptyPath =>
                        output = Path(input.dir, input.name, ".xlsx")
                  /\ isdir(config.output_file) =>
                        /\ output.dir = config.output_file.dir
                        /\ output.name # ""
        /\ \A i, j \in 1..Len(output_log) :
              output_log[i][1] # output_log[j][1] => output_log[i][2] # output_log[j][2]

\* The coordinates getpixel was called with, and a cell write about to happen.
CallsMade == { getpixel_calls[i] : i \in 1..Len(getpixel_calls) }
HasSheet == pc \notin {"sheet_info", "workbook"}
AboutToWrite ==
    \/ pc = "pop_cell"
    \/ pc = "pop_col" /\ col < sheet_info.num_sheet_cols /\ col % 3 # 0

\* C11: getpixel is never called outside the image nor twice with the same
\* coordinate, and when populate_cell_values has returned it was called W * H
\* times, once per pixel; a cell is written only after its pixel was read, and at
\* each of the three writes of a pixel the carried value is that of the latest
\* read, which is the read of this pixel.
C11_OneReadPerPixel ==
    /\ \A i \in 1..Len(getpixel_calls) :
          /\ getpixel_calls[i][1] \in 0..(image.width - 1)
          /\ getpixel_calls[i][2] \in 0..(image.height - 1)
          /\ \A j \in 1..Len(getpixel_calls) :
                i # j => getpixel_calls[i] # getpixel_calls[j]
    /\ Populated =>
          /\ Len(getpixel_calls) = image.width * image.height
          /\ CallsMade = (0..(image.width - 1)) \X (0..(image.height - 1))
    /\ HasSheet =>
          \A cell \in DOMAIN wksheet.cells :
              <<(cell[1] - 1) \div 3, cell[2] - 1>> \in CallsMade
    /\ AboutToWrite =>
          /\ getpixel_calls # << >>
          /\ getpixel_calls[Len(getpixel_calls)] = <<col \div 3, row>>
          /\ pixel_rgb = image.pixels[<<col \div 3, row>>]

\* C11 witness: the blue cell of the second pixel of a row is about to be written
\* from the read of that pixel, whose colour differs from the first pixel's.
C11_Witness ==
    /\ AboutToWrite
    /\ col = 5 /\ row = 1
    /\ image.pixels[<<1, 1>>] # image.pixels[<<0, 1>>]
    /\ Len(getpixel_calls) = image.width + 2
    /\ pixel_rgb = image.pixels[<<1, 1>>]

\* C12: when the run reports its counters, files seen is the number of files
\* handed to a Converter, files processed is the number of those whose
\* process_file reached the save, 0 <= processed <= seen, and processed > 0 when
\* at least one image was converted.
C12_CountersMatchOutcomes ==
    pc = "finished" =>
        /\ num_files_seen = Len(attempted)
        /\ num_files_processed = Len(save_calls)
        /\ 0 <= num_files_processed /\ num_files_processed <= num_files_seen
        /\ save_calls # << >> => num_files_processed > 0

====
